---- MODULE Spec2Model ----
(***************************************************************************)
(* Model of the mvg_dioxus departure board (src/main.rs): the refresh      *)
(* coroutine, the clock coroutine, the shared hook state they write, and   *)
(* the fetch pipeline get_response (decode, Departure::from, sorted_by).   *)
(*                                                                         *)
(* Both coroutines are futures polled on the one UI thread, so the code    *)
(* between two .await points runs as one step; every action below is one   *)
(* such poll segment.  Time is a discrete count of seconds.                *)
(***************************************************************************)
EXTENDS Integers, Sequences, FiniteSets, TLC

VARIABLES
    current_response,   \* use_state: None | Some(Ok(list)) | Some(Err(cause))
    is_fetching,        \* use_state: the in-flight flag
    time,               \* use_state: the clock value last published
    refresh_pc,         \* position of the refresh coroutine
    clock_pc,           \* position of the clock coroutine
    refresh_left,       \* seconds left of the refresh coroutine's sleep
    clock_left,         \* seconds left of the clock coroutine's sleep
    now,                \* the wall clock, as Local::now() reads it
    wire,               \* the body of the current cycle's HTTP response
    converted,          \* the Vec<Departure> that sorted_by collected last
    cycle,              \* tag of the refresh cycle started last (0: none yet)
    result_cycle,       \* tag of the cycle whose outcome current_response holds
    fetches_in_flight,  \* calls of get_response started and not yet returned
    fetch_elapsed,      \* seconds the call of get_response in progress has taken
    waited,             \* seconds the refresh coroutine's current sleep has lasted
    rendered            \* what app's last render put on the screen

vars == <<current_response, is_fetching, time, refresh_pc, clock_pc,
          refresh_left, clock_left, now, wire, converted, cycle,
          result_cycle, fetches_in_flight, fetch_elapsed, waited, rendered>>

(***************************************************************************)
(* Program constants and model bounds.                                     *)
(***************************************************************************)
RefreshSecs == 5
ClockSecs == 1

\* Width of the timestamp fields (u64 in the source, scaled down).
TsBits == 3
\* Largest millisecond count chrono accepts (scaled down; see ChronoAccepts).
MaxValidMs == 1
\* Largest delayInMinutes drawn.
MaxDelay == 1
\* Longest response body drawn for the pipeline.
MaxRecords == 3
\* fetch_elapsed saturates here; it exceeds RefreshSecs.
MaxFetchSecs == 6
\* The wall clock display wraps here.
ClockMod == 2
\* Cycle tags run 1..CycleMod and wrap.
CycleMod == 2

RECURSIVE Pow2(_)
Pow2(n) == IF n = 0 THEN 1 ELSE 2 * Pow2(n - 1)

Min(a, b) == IF a < b THEN a ELSE b

(***************************************************************************)
(* Option and Result values.                                               *)
(***************************************************************************)
None == <<"None">>
Some(v) == <<"Some", v>>
Ok(v) == <<"Ok", v>>
Err(e) == <<"Err", e>>
IsSome(o) == o[1] = "Some"
IsOk(r) == r[1] = "Ok"
IsErr(r) == r[1] = "Err"

(***************************************************************************)
(* RawDeparture: the wire record.  Only the fields Departure::from reads   *)
(* are kept; the timestamps are unsigned TsBits-bit integers.              *)
(***************************************************************************)
TsValues == 0..(Pow2(TsBits) - 1)

RawDeparture(planned, real, realtime, delay, canc, label, dest) ==
    [planned_departure_time_ms |-> planned,
     real_departure_time_ms |-> real,
     is_real_time |-> realtime,
     delay_minutes |-> delay,
     cancelled |-> canc,
     vehicle_label |-> label,
     destination |-> dest]

\* `x as i64`: the unsigned value reinterpreted in two's complement.
AsI64(x) == IF x >= Pow2(TsBits - 1) THEN x - Pow2(TsBits) ELSE x

\* timestamp_millis_opt(ms) is LocalResult::Single only inside chrono's range;
\* outside it is LocalResult::None and .unwrap() panics.
ChronoAccepts(ms) == (0 - MaxValidMs) <= ms /\ ms <= MaxValidMs

timestamp_millis_opt(ms) == IF ChronoAccepts(ms) THEN Some(ms) ELSE None

(***************************************************************************)
(* Departure and its accessor.                                             *)
(***************************************************************************)
displayed_time_actual_only(self) == self.actual_time

displayed_time(self) ==
    IF self.cancelled THEN self.planned_time ELSE self.actual_time

\* Departure::from panics when either unwrap() meets LocalResult::None.
FromPanics(value) ==
    \/ ~IsSome(timestamp_millis_opt(AsI64(value.real_departure_time_ms)))
    \/ ~IsSome(timestamp_millis_opt(AsI64(value.planned_departure_time_ms)))

DepartureFromDelayAlways(value) ==
    [actual_time |-> timestamp_millis_opt(AsI64(value.real_departure_time_ms))[2],
     planned_time |-> timestamp_millis_opt(AsI64(value.planned_departure_time_ms))[2],
     delay |-> Some(value.delay_minutes),
     destination |-> value.destination,
     cancelled |-> value.cancelled,
     vehicle_label |-> value.vehicle_label]

\* impl From<RawDeparture> for Departure, for a value that does not panic.
DepartureFrom(value) ==
    [actual_time |-> timestamp_millis_opt(AsI64(value.real_departure_time_ms))[2],
     planned_time |-> timestamp_millis_opt(AsI64(value.planned_departure_time_ms))[2],
     delay |-> IF value.is_real_time THEN Some(value.delay_minutes) ELSE None,
     destination |-> value.destination,
     cancelled |-> value.cancelled,
     vehicle_label |-> value.vehicle_label]

(***************************************************************************)
(* get_response after the body has been decoded: map, sorted_by, collect.  *)
(***************************************************************************)
MapFrom(raws) == [i \in 1..Len(raws) |-> DepartureFrom(raws[i])]

AnyFromPanics(raws) == \E i \in 1..Len(raws) : FromPanics(raws[i])

cmp_no_equal(dep1, dep2) ==
    IF displayed_time(dep1) < displayed_time(dep2) THEN "Less" ELSE "Greater"

\* The comparator closure handed to sorted_by.
cmp_displayed(dep1, dep2) ==
    IF displayed_time(dep1) < displayed_time(dep2) THEN "Less"
    ELSE IF displayed_time(dep1) > displayed_time(dep2) THEN "Greater"
    ELSE "Equal"

\* One step of the stable sort: dep moves left past every element that
\* compares Greater, and stops at the first that does not.
RECURSIVE InsertTail(_, _)
InsertTail(prefix, dep) ==
    IF prefix = <<>> THEN <<dep>>
    ELSE LET last == prefix[Len(prefix)]
         IN  IF cmp_displayed(last, dep) = "Greater"
             THEN Append(InsertTail(SubSeq(prefix, 1, Len(prefix) - 1), dep), last)
             ELSE Append(prefix, dep)

RECURSIVE SortPrefix(_, _)
SortPrefix(v, n) ==
    IF n = 0 THEN <<>> ELSE InsertTail(SortPrefix(v, n - 1), v[n])

\* Itertools::sorted_by: collect into a Vec, Vec::sort_by (stable), iterate.
sorted_by(v) == SortPrefix(v, Len(v))

(***************************************************************************)
(* Response bodies.  A body is what the server sent: a JSON array of       *)
(* records of the expected shape, or anything else (malformed).            *)
(***************************************************************************)
NoBody == <<"none", <<>>>>
Malformed == <<"malformed", <<>>>>
Json(raws) == <<"json", raws>>

TransportError == <<"TransportError">>
DecodeError == <<"DecodeError">>

\* The JSON names of RawDeparture's fields (rename_all = "camelCase" and the
\* renames): the ones Departure::from reads, the ones it does not, and the
\* one that carries #[serde(default)].
UsedFields ==
    {"plannedDepartureTime", "realtimeDepartureTime", "realtime",
     "destination", "cancelled", "label"}
UnusedFields ==
    {"transportType", "divaId", "network", "trainType", "sev", "platform",
     "messages", "bannerHash", "occupancy", "stopPointGlobalId"}
DefaultedFields == {"delayInMinutes"}
AllFields == UsedFields \cup UnusedFields \cup DefaultedFields

\* A field without #[serde(default)] must be present.
RequiredFields == AllFields \ DefaultedFields

\* One element of the response array: the values of the fields
\* Departure::from reads, the names of the fields the element lacks (the
\* value of a lacking field means nothing), and whether it carries a field
\* RawDeparture does not know.
JsonObject(raw, absent, extra) ==
    [planned_departure_time_ms |-> raw.planned_departure_time_ms,
     real_departure_time_ms |-> raw.real_departure_time_ms,
     is_real_time |-> raw.is_real_time,
     delay_minutes |-> raw.delay_minutes,
     cancelled |-> raw.cancelled,
     vehicle_label |-> raw.vehicle_label,
     destination |-> raw.destination,
     absent |-> absent,
     extra |-> extra]

FullObject(raw) == JsonObject(raw, {}, FALSE)

DecodesRecordAllDefaulted(obj) == TRUE

\* The derived Deserialize of RawDeparture: a missing required field is an
\* error; an unknown field is skipped.
DecodesRecord(obj) == obj.absent \cap RequiredFields = {}

\* The decoded struct; delayInMinutes defaults to 0.
DecodeRecord(obj) ==
    RawDeparture(obj.planned_departure_time_ms,
                 obj.real_departure_time_ms,
                 obj.is_real_time,
                 IF "delayInMinutes" \in obj.absent THEN 0 ELSE obj.delay_minutes,
                 obj.cancelled,
                 obj.vehicle_label,
                 obj.destination)

\* json::<Vec<RawDeparture>>: every element decodes, or the whole call fails.
DecodesBody(objs) == \A i \in 1..Len(objs) : DecodesRecord(objs[i])

DecodeBody(objs) == [i \in 1..Len(objs) |-> DecodeRecord(objs[i])]

\* Every record of the scaled-down wire format.
RawDepartures ==
    {RawDeparture(p, r, rt, d, c, "S1", "Airport") :
        p \in TsValues, r \in TsValues, rt \in BOOLEAN,
        d \in 0..MaxDelay, c \in BOOLEAN}

\* Records for the bodies of several records: the earliest and the latest
\* non-negative timestamp chrono accepts, so that two records may share a
\* displayed time and still differ.
ListRecords ==
    {RawDeparture(p, r, TRUE, 0, c, "S1", "Airport") :
        p \in {0, MaxValidMs}, r \in {0, MaxValidMs}, c \in BOOLEAN}

RECURSIVE SeqsUpTo(_, _)
SeqsUpTo(S, n) ==
    IF n = 0 THEN {<<>>}
    ELSE LET shorter == SeqsUpTo(S, n - 1)
         IN  shorter \cup {Append(q, x) : q \in shorter, x \in S}

\* An element lacks no field or one field.
AbsentChoices == {{}} \cup {{f} : f \in AllFields}

\* Elements that may lack a field or carry an unknown one.
PartialObjects ==
    {JsonObject(r, a, e) :
        r \in ListRecords
              \cup {RawDeparture(0, 0, TRUE, MaxDelay, FALSE, "S1", "Airport")},
        a \in AbsentChoices, e \in BOOLEAN}

\* Bodies for the pipeline: every single record, every short list, every
\* single element that lacks a field, and the pairs of a complete element
\* and one that lacks a field.
PipelineBodies ==
    {Malformed}
        \cup {Json(<<FullObject(r)>>) : r \in RawDepartures}
        \cup {Json([i \in 1..Len(q) |-> FullObject(q[i])]) :
                 q \in SeqsUpTo(ListRecords, MaxRecords)}
        \cup {Json(<<o>>) : o \in PartialObjects}
        \cup {Json(<<FullObject(r), JsonObject(r, a, FALSE)>>) :
                 r \in ListRecords, a \in AbsentChoices}
        \cup {Json(<<JsonObject(r, a, FALSE), FullObject(r)>>) :
                 r \in ListRecords, a \in AbsentChoices}

\* Bodies the server sends while the tickers run: an empty board, a board
\* that needs sorting, a record whose timestamp chrono rejects, and a body
\* that is not a departure array.
TickerBodies ==
    {Malformed,
     Json(<<>>),
     Json(<<FullObject(RawDeparture(1, 1, TRUE, 0, FALSE, "S1", "Airport")),
            FullObject(RawDeparture(0, 0, FALSE, 1, TRUE, "S1", "Airport"))>>),
     Json(<<FullObject(RawDeparture(0, Pow2(TsBits - 1), TRUE, 0, FALSE,
                                    "S1", "Airport"))>>)}

(***************************************************************************)
(* The refresh coroutine (use_coroutine, lines 124-135).                   *)
(***************************************************************************)
Alive == refresh_pc # "panicked"

NextCycle(c) == (c % CycleMod) + 1

InFetch == refresh_pc \in {"awaiting_get", "awaiting_json"}

\* is_fetching.set(true); get_response() runs up to reqwest::get(..).await.
StartFetchNoFlag ==
    /\ is_fetching' = is_fetching
    /\ refresh_pc' = "awaiting_get"
    /\ cycle' = NextCycle(cycle)
    /\ fetches_in_flight' = fetches_in_flight + 1
    /\ fetch_elapsed' = 0
    /\ refresh_left' = 0
    /\ wire' = NoBody
    /\ waited' = 0
    /\ UNCHANGED rendered
    /\ UNCHANGED <<current_response, time, clock_pc, clock_left, now,
                   converted, result_cycle>>

StartFetch ==
    /\ is_fetching' = TRUE
    /\ refresh_pc' = "awaiting_get"
    /\ cycle' = NextCycle(cycle)
    /\ fetches_in_flight' = fetches_in_flight + 1
    /\ fetch_elapsed' = 0
    /\ refresh_left' = 0
    /\ wire' = NoBody
    /\ waited' = 0
    /\ UNCHANGED rendered
    /\ UNCHANGED <<current_response, time, clock_pc, clock_left, now,
                   converted, result_cycle>>

\* The first poll of the coroutine enters the loop at once.
RefreshFirstPoll ==
    /\ refresh_pc = "init"
    /\ StartFetch

SleepDoneEvenInFetch ==
    /\ refresh_pc \in {"sleeping", "awaiting_get", "awaiting_json"}
    /\ refresh_left = 0

\* tokio::time::sleep(5 s) has completed.
SleepDone ==
    /\ refresh_pc = "sleeping"
    /\ refresh_left = 0

\* The sleep returns and the loop starts the next cycle in the same poll.
SleepElapses ==
    /\ Alive
    /\ SleepDone
    /\ StartFetch

PublishWaitFromCycleStart(outcome) ==
    /\ current_response' = Some(outcome)
    /\ is_fetching' = FALSE
    /\ result_cycle' = cycle
    /\ fetches_in_flight' = fetches_in_flight - 1
    /\ refresh_pc' = "sleeping"
    /\ refresh_left' = RefreshSecs - Min(fetch_elapsed, RefreshSecs)
    /\ waited' = 0
    /\ fetch_elapsed' = 0

PublishKeepFlag(outcome) ==
    /\ current_response' = Some(outcome)
    /\ is_fetching' = is_fetching
    /\ result_cycle' = cycle
    /\ fetches_in_flight' = fetches_in_flight - 1
    /\ refresh_pc' = "sleeping"
    /\ refresh_left' = RefreshSecs
    /\ waited' = 0
    /\ fetch_elapsed' = 0

PublishClearOnErr(outcome) ==
    /\ current_response' = IF IsErr(outcome) THEN None ELSE Some(outcome)
    /\ is_fetching' = FALSE
    /\ result_cycle' = cycle
    /\ fetches_in_flight' = fetches_in_flight - 1
    /\ refresh_pc' = "sleeping"
    /\ refresh_left' = RefreshSecs
    /\ waited' = 0
    /\ fetch_elapsed' = 0

PublishStopOnErr(outcome) ==
    /\ current_response' = Some(outcome)
    /\ is_fetching' = FALSE
    /\ result_cycle' = cycle
    /\ fetches_in_flight' = fetches_in_flight - 1
    /\ refresh_pc' = IF IsErr(outcome) THEN "done" ELSE "sleeping"
    /\ refresh_left' = RefreshSecs
    /\ waited' = 0
    /\ fetch_elapsed' = 0

PublishKeepOnErr(outcome) ==
    /\ current_response' = IF IsErr(outcome) THEN current_response ELSE Some(outcome)
    /\ is_fetching' = FALSE
    /\ result_cycle' = cycle
    /\ fetches_in_flight' = fetches_in_flight - 1
    /\ refresh_pc' = "sleeping"
    /\ refresh_left' = RefreshSecs
    /\ waited' = 0
    /\ fetch_elapsed' = 0

\* get_response has returned `outcome`: current_response.set(Some(outcome));
\* is_fetching.set(false); then the sleep starts, all in the same poll.
Publish(outcome) ==
    /\ current_response' = Some(outcome)
    /\ is_fetching' = FALSE
    /\ result_cycle' = cycle
    /\ fetches_in_flight' = fetches_in_flight - 1
    /\ refresh_pc' = "sleeping"
    /\ refresh_left' = RefreshSecs
    /\ waited' = 0
    /\ fetch_elapsed' = 0

\* reqwest::get(..).await? fails: get_response returns the transport error.
GetFails ==
    /\ Alive
    /\ refresh_pc = "awaiting_get"
    /\ Publish(Err(TransportError))
    /\ UNCHANGED rendered
    /\ UNCHANGED <<time, clock_pc, clock_left, now, wire, converted, cycle>>

GetSucceedsClearsFlag ==
    /\ Alive
    /\ refresh_pc = "awaiting_get"
    /\ \E body \in TickerBodies : wire' = body
    /\ refresh_pc' = "awaiting_json"
    /\ is_fetching' = FALSE
    /\ UNCHANGED <<rendered, waited>>
    /\ UNCHANGED <<current_response, time, clock_pc, refresh_left,
                   clock_left, now, converted, cycle, result_cycle,
                   fetches_in_flight, fetch_elapsed>>

\* reqwest::get(..).await? yields a response; .json() starts reading it.
GetSucceeds ==
    /\ Alive
    /\ refresh_pc = "awaiting_get"
    /\ \E body \in TickerBodies : wire' = body
    /\ refresh_pc' = "awaiting_json"
    /\ UNCHANGED <<rendered, waited>>
    /\ UNCHANGED <<current_response, is_fetching, time, clock_pc, refresh_left,
                   clock_left, now, converted, cycle, result_cycle,
                   fetches_in_flight, fetch_elapsed>>

\* .json::<Vec<RawDeparture>>().await? fails while reading the body.
JsonReadFails ==
    /\ Alive
    /\ refresh_pc = "awaiting_json"
    /\ Publish(Err(TransportError))
    /\ UNCHANGED rendered
    /\ UNCHANGED <<time, clock_pc, clock_left, now, wire, converted, cycle>>

\* .json::<Vec<RawDeparture>>().await? fails: the body has not the shape.
JsonDecodeFails ==
    /\ Alive
    /\ refresh_pc = "awaiting_json"
    /\ \/ wire[1] = "malformed"
       \/ wire[1] = "json" /\ ~DecodesBody(wire[2])
    /\ Publish(Err(DecodeError))
    /\ UNCHANGED rendered
    /\ UNCHANGED <<time, clock_pc, clock_left, now, wire, converted, cycle>>

\* The body decodes, and Departure::from panics on one of its records: the
\* panic unwinds out of the poll on the UI thread and ends the process.
JsonDecodedPanics ==
    /\ Alive
    /\ refresh_pc = "awaiting_json"
    /\ wire[1] = "json"
    /\ DecodesBody(wire[2])
    /\ AnyFromPanics(DecodeBody(wire[2]))
    /\ refresh_pc' = "panicked"
    /\ UNCHANGED <<rendered, waited>>
    /\ UNCHANGED <<current_response, is_fetching, time, clock_pc, refresh_left,
                   clock_left, now, wire, converted, cycle, result_cycle,
                   fetches_in_flight, fetch_elapsed>>

JsonDecodedEmptyIsErr ==
    /\ Alive
    /\ refresh_pc = "awaiting_json"
    /\ wire[1] = "json"
    /\ DecodesBody(wire[2])
    /\ ~AnyFromPanics(DecodeBody(wire[2]))
    /\ converted' = MapFrom(DecodeBody(wire[2]))
    /\ Publish(IF wire[2] = <<>> THEN Err(DecodeError)
               ELSE Ok(sorted_by(MapFrom(DecodeBody(wire[2])))))
    /\ UNCHANGED rendered
    /\ UNCHANGED <<time, clock_pc, clock_left, now, wire, cycle>>

\* The body decodes; map(Departure::from), sorted_by, collect; Ok is published.
JsonDecoded ==
    /\ Alive
    /\ refresh_pc = "awaiting_json"
    /\ wire[1] = "json"
    /\ DecodesBody(wire[2])
    /\ ~AnyFromPanics(DecodeBody(wire[2]))
    /\ converted' = MapFrom(DecodeBody(wire[2]))
    /\ Publish(Ok(sorted_by(MapFrom(DecodeBody(wire[2])))))
    /\ UNCHANGED rendered
    /\ UNCHANGED <<time, clock_pc, clock_left, now, wire, cycle>>

(***************************************************************************)
(* The clock coroutine (use_coroutine, lines 137-145).                     *)
(***************************************************************************)
\* The first poll reaches tokio::time::sleep(1 s).
ClockFirstPoll ==
    /\ Alive
    /\ clock_pc = "init"
    /\ clock_pc' = "sleeping"
    /\ clock_left' = ClockSecs
    /\ UNCHANGED <<rendered, waited>>
    /\ UNCHANGED <<current_response, is_fetching, time, refresh_pc, refresh_left,
                   now, wire, converted, cycle, result_cycle, fetches_in_flight,
                   fetch_elapsed>>

\* The clock's sleep has completed.
ClockReady ==
    /\ clock_pc = "sleeping"
    /\ clock_left = 0

\* time.set(Local::now()); the loop sleeps again in the same poll.
ClockPublish ==
    /\ Alive
    /\ ClockReady
    /\ time' = now
    /\ clock_left' = ClockSecs
    /\ UNCHANGED <<rendered, waited>>
    /\ UNCHANGED <<current_response, is_fetching, refresh_pc, clock_pc,
                   refresh_left, now, wire, converted, cycle, result_cycle,
                   fetches_in_flight, fetch_elapsed>>

(***************************************************************************)
(* The read path: app's render (lines 147-161) and ResponseTile.           *)
(***************************************************************************)
ResponseTileNoNote(departure) ==
    [time_text |-> displayed_time(departure),
     note |-> None,
     italic |-> ~IsSome(departure.delay) /\ ~departure.cancelled,
     struck |-> departure.cancelled,
     vehicle_label |-> departure.vehicle_label,
     destination |-> departure.destination]

\* ResponseTile: the time shown and its "(+ N)" note, whether the time is
\* in italics, and whether the whole tile is struck through.
ResponseTile(departure) ==
    [time_text |-> displayed_time(departure),
     note |-> departure.delay,
     italic |-> ~IsSome(departure.delay) /\ ~departure.cancelled,
     struck |-> departure.cancelled,
     vehicle_label |-> departure.vehicle_label,
     destination |-> departure.destination]

\* tile_body: the match on current_response.get().
tile_body(response) ==
    IF response[1] = "None" THEN <<"text", <<>>>>
    ELSE IF IsOk(response[2])
         THEN <<"tiles", [i \in 1..Len(response[2][2]) |->
                             ResponseTile(response[2][2][i])]>>
         ELSE <<"failed", response[2][2]>>

\* What cx.render puts on the screen: the loader and the tile body.
AppView == [loader |-> is_fetching, body |-> tile_body(current_response)]

RenderWritesBack ==
    /\ Alive
    /\ rendered' = AppView
    /\ is_fetching' = FALSE
    /\ UNCHANGED <<current_response, time, refresh_pc, clock_pc, refresh_left,
                   clock_left, now, wire, converted, cycle, result_cycle,
                   fetches_in_flight, fetch_elapsed, waited>>

\* A render of app: it reads the hooks and writes none of them.
Render ==
    /\ Alive
    /\ rendered' = AppView
    /\ UNCHANGED <<current_response, is_fetching, time, refresh_pc, clock_pc,
                   refresh_left, clock_left, now, wire, converted, cycle,
                   result_cycle, fetches_in_flight, fetch_elapsed, waited>>

(***************************************************************************)
(* One second passes: the pending sleeps come one second nearer, and a     *)
(* call of get_response in progress has taken one second more.             *)
(***************************************************************************)
Tick ==
    /\ Alive
    /\ now' = (now + 1) % ClockMod
    /\ refresh_left' = IF refresh_left > 0 THEN refresh_left - 1 ELSE 0
    /\ clock_left' = IF clock_left > 0 THEN clock_left - 1 ELSE 0
    /\ fetch_elapsed' = IF InFetch THEN Min(fetch_elapsed + 1, MaxFetchSecs)
                        ELSE fetch_elapsed
    /\ waited' = IF refresh_pc = "sleeping" THEN Min(waited + 1, RefreshSecs)
                 ELSE waited
    /\ UNCHANGED rendered
    /\ UNCHANGED <<current_response, is_fetching, time, refresh_pc, clock_pc,
                   wire, converted, cycle, result_cycle, fetches_in_flight>>

(***************************************************************************)
(* The state after app's first render: both hooks hold their initial       *)
(* values and both coroutines are spawned and not yet polled.              *)
(***************************************************************************)
Init ==
    /\ current_response = None
    /\ is_fetching = FALSE
    /\ time = 0
    /\ now = 0
    /\ refresh_pc = "init"
    /\ clock_pc = "init"
    /\ refresh_left = 0
    /\ clock_left = 0
    /\ wire = NoBody
    /\ converted = <<>>
    /\ cycle = 0
    /\ result_cycle = 0
    /\ fetches_in_flight = 0
    /\ fetch_elapsed = 0
    /\ waited = 0
    /\ rendered = [loader |-> FALSE, body |-> tile_body(None)]

Next ==
    \/ RefreshFirstPoll
    \/ SleepElapses
    \/ GetFails
    \/ GetSucceeds
    \/ JsonReadFails
    \/ JsonDecodeFails
    \/ JsonDecodedPanics
    \/ JsonDecoded
    \/ ClockFirstPoll
    \/ ClockPublish
    \/ Render
    \/ Tick

Spec == Init /\ [][Next]_vars

(***************************************************************************)
(* The scheduling the runtime provides: time passes, a coroutine that can  *)
(* be polled is polled, and (the environment's part) a request in flight   *)
(* ends.                                                                   *)
(***************************************************************************)
FetchReturns ==
    \/ GetFails
    \/ GetSucceeds
    \/ JsonReadFails
    \/ JsonDecodeFails
    \/ JsonDecodedPanics
    \/ JsonDecoded

FairSpec ==
    /\ Init /\ [][Next]_vars
    /\ WF_vars(Tick)
    /\ WF_vars(RefreshFirstPoll)
    /\ WF_vars(SleepElapses)
    /\ WF_vars(ClockFirstPoll)
    /\ WF_vars(ClockPublish)
    /\ WF_vars(FetchReturns)

(***************************************************************************)
(* The pipeline on its own: a cycle whose response has arrived, for every  *)
(* body of PipelineBodies, followed by the rest of get_response.           *)
(***************************************************************************)
PipelineInit ==
    /\ current_response = None
    /\ is_fetching = TRUE
    /\ time = 0
    /\ now = 0
    /\ refresh_pc = "awaiting_json"
    /\ clock_pc = "init"
    /\ refresh_left = 0
    /\ clock_left = 0
    /\ wire \in PipelineBodies
    /\ converted = <<>>
    /\ cycle = 1
    /\ result_cycle = 0
    /\ fetches_in_flight = 1
    /\ fetch_elapsed = 0
    /\ waited = 0
    /\ rendered = [loader |-> TRUE, body |-> tile_body(None)]

PipelineNext ==
    \/ JsonReadFails
    \/ JsonDecodeFails
    \/ JsonDecodedPanics
    \/ JsonDecoded
    \/ Render

PipelineSpec == PipelineInit /\ [][PipelineNext]_vars

(***************************************************************************)
(* Properties.                                                             *)
(***************************************************************************)
HasResult == current_response[1] = "Some"
Outcome == current_response[2]
HasOk == HasResult /\ IsOk(Outcome)
HasErr == HasResult /\ IsErr(Outcome)
Published == Outcome[2]

\* C1: the refresh ticker is single-flight.  At most one call of
\* get_response is in progress; the cycle started last is the one whose
\* outcome is published or the one directly after it, so no cycle starts
\* before its predecessor's outcome is published; and a call in progress,
\* however long it has taken, still has the in-flight flag set.
C1_SingleFlight ==
    /\ fetches_in_flight <= 1
    /\ cycle = result_cycle \/ cycle = NextCycle(result_cycle)
    /\ (cycle # result_cycle) => fetches_in_flight = 1
    /\ (fetches_in_flight >= 1 /\ fetch_elapsed > RefreshSecs) => is_fetching

\* A call of a later cycle that has taken longer than the 5-second interval.
C1_Witness ==
    /\ InFetch
    /\ fetch_elapsed > RefreshSecs
    /\ is_fetching
    /\ result_cycle >= 1
    /\ cycle = NextCycle(result_cycle)

\* C2: whenever get_response has been started and has not returned, the
\* in-flight flag is true.
C2_FlagTrueWhileFetching == InFetch => is_fetching = TRUE

C2_Witness == refresh_pc = "awaiting_json" /\ wire[1] = "json" /\ is_fetching

\* C3: the flag and the latest result change together.  While the flag is
\* true the latest result is still that of the cycle before the current one;
\* while it is false the latest result is that of the current cycle.
C3_AtomicPublish ==
    /\ is_fetching => (cycle = NextCycle(result_cycle) /\ cycle # result_cycle)
    /\ ~is_fetching => result_cycle = cycle

\* The second cycle's outcome has just replaced the first one's.
C3_Witness ==
    /\ refresh_pc = "sleeping"
    /\ refresh_left = RefreshSecs
    /\ cycle = 2
    /\ result_cycle = 2
    /\ ~is_fetching
    /\ HasResult

\* C4: a step in which the cycle's fetch fails (transport or decode) leaves
\* Some(Err) as the latest result, whatever it was before, and leaves the
\* refresh loop running (in its sleep).
C4_FailureReplacesResult ==
    [][(GetFails \/ JsonReadFails \/ JsonDecodeFails)
        => (/\ current_response'[1] = "Some"
            /\ IsErr(current_response'[2])
            /\ refresh_pc' = "sleeping")]_vars

\* A decode failure published after an earlier cycle had published departures.
C4_Witness ==
    /\ HasErr
    /\ Published = DecodeError
    /\ converted # <<>>
    /\ refresh_pc = "sleeping"

\* Bijections of 1..n.
Perms(n) ==
    {f \in [1..n -> 1..n] : \A i, j \in 1..n : f[i] = f[j] => i = j}

\* out is input reordered ascending by displayed_time, elements of equal
\* displayed_time in their input order.
IsStableSortOf(out, input) ==
    /\ Len(out) = Len(input)
    /\ \E p \in Perms(Len(input)) :
        /\ \A i \in 1..Len(out) : out[i] = input[p[i]]
        /\ \A i, j \in 1..Len(out) :
            i < j => \/ displayed_time(out[i]) < displayed_time(out[j])
                     \/ /\ displayed_time(out[i]) = displayed_time(out[j])
                        /\ p[i] < p[j]

\* C5: the list a successful cycle publishes is the converted records sorted
\* ascending by displayed_time, ties in input order.
C5_SortedStable ==
    (HasOk /\ refresh_pc = "sleeping") => IsStableSortOf(Published, converted)

\* Three records, two of them different with the same displayed time, which
\* the sort had to reorder.
C5_Witness ==
    /\ HasOk
    /\ Len(Published) = 3
    /\ Published # converted
    /\ \E i, j \in 1..3 :
        /\ i < j
        /\ displayed_time(Published[i]) = displayed_time(Published[j])
        /\ Published[i] # Published[j]

ExpectedDisplayed(d) == IF d.cancelled THEN d.planned_time ELSE d.actual_time

\* C6: displayed_time() is planned_time for a cancelled departure and
\* actual_time otherwise, whatever the delay, and the published order is
\* ascending in exactly that time.
C6_DisplayedTime ==
    (HasOk /\ refresh_pc = "sleeping") =>
        /\ \A i \in 1..Len(converted) :
            displayed_time(converted[i]) = ExpectedDisplayed(converted[i])
        /\ \A i, j \in 1..Len(Published) :
            i < j => ExpectedDisplayed(Published[i]) <= ExpectedDisplayed(Published[j])

\* A cancelled departure whose planned and realtime timestamps differ, with
\* a delay present.
C6_Witness ==
    /\ HasOk
    /\ \E i \in 1..Len(Published) :
        /\ Published[i].cancelled
        /\ Published[i].planned_time # Published[i].actual_time
        /\ IsSome(Published[i].delay)

\* C7: the converted delay is Some(delayInMinutes) when realtime is true and
\* None when it is false, whatever delayInMinutes is.
C7_DelayIffRealtime ==
    (HasOk /\ refresh_pc = "sleeping") =>
        /\ Len(converted) = Len(wire[2])
        /\ \A i \in 1..Len(converted) :
            LET raw == DecodeRecord(wire[2][i])
            IN  /\ IsSome(converted[i].delay) <=> raw.is_real_time
                /\ raw.is_real_time => converted[i].delay = Some(raw.delay_minutes)
                /\ ~raw.is_real_time => converted[i].delay = None

\* realtime = false with a nonzero delayInMinutes.
C7_Witness ==
    /\ HasOk
    /\ Len(converted) = 1
    /\ ~wire[2][1].is_real_time
    /\ wire[2][1].delay_minutes > 0
    /\ converted[1].delay = None

\* C8: the refresh ticker has no terminal state.  Once a cycle's outcome is
\* published a new fetch is eventually started, and as long as no call of
\* get_response fails to return, fetches start again and again.
C8_NoTerminalState ==
    /\ (cycle > 0 /\ cycle = result_cycle) ~> InFetch
    /\ (<>(~Alive)) \/ ([]<>(refresh_pc = "awaiting_get"))

\* A later cycle's fetch, started after a failure was published.
C8_Witness ==
    /\ refresh_pc = "awaiting_get"
    /\ HasErr
    /\ result_cycle >= 1
    /\ cycle = NextCycle(result_cycle)

\* C9: the clock ticker is never blocked by the refresh ticker: in every
\* reachable state the clock coroutine's next step is enabled.
C9_ClockNeverBlocked ==
    /\ clock_pc = "init" => ENABLED ClockFirstPoll
    /\ (clock_pc = "sleeping" /\ clock_left > 0) => ENABLED Tick
    /\ (clock_pc = "sleeping" /\ clock_left = 0) => ENABLED ClockPublish

\* C10: latest_result is None exactly as long as no cycle has completed.
C10_AbsentUntilFirstCycle == (current_response = None) <=> (result_cycle = 0)

\* The first cycle has completed, with a failure.
C10_Witness ==
    /\ result_cycle = 1
    /\ HasErr
    /\ refresh_pc = "sleeping"

\* C11: converting a decoded record never panics, whatever unsigned
\* timestamps it carries, and the timestamp 0 converts to the epoch.
C11_ConversionNeverPanics ==
    /\ refresh_pc # "panicked"
    /\ (HasOk /\ refresh_pc = "sleeping") =>
           \A i \in 1..Len(converted) :
               wire[2][i].planned_departure_time_ms = 0
                   => converted[i].planned_time = 0

\* C12: an element that carries every field the engine uses decodes even
\* when it lacks an unused field, and an unknown field never fails the
\* decoding: such a body never ends in a decode error.
C12_UnusedFieldsOptional ==
    (/\ refresh_pc = "sleeping"
     /\ wire[1] = "json"
     /\ \A i \in 1..Len(wire[2]) : wire[2][i].absent \cap UsedFields = {})
        => ~(HasErr /\ Published = DecodeError)

RefreshStep ==
    \/ RefreshFirstPoll
    \/ SleepElapses
    \/ GetFails
    \/ GetSucceeds
    \/ JsonReadFails
    \/ JsonDecodeFails
    \/ JsonDecodedPanics
    \/ JsonDecoded

ClockStep == ClockFirstPoll \/ ClockPublish

\* C13: one writer per field.  A step of the refresh coroutine leaves the
\* clock value alone, a step of the clock coroutine leaves the latest result
\* and the in-flight flag alone, and a render changes none of the three.
C13_SingleWriter ==
    [][/\ RefreshStep => time' = time
       /\ ClockStep => UNCHANGED <<current_response, is_fetching>>
       /\ Render => UNCHANGED <<current_response, is_fetching, time>>]_vars

\* A render has shown the loader of a later cycle, after the refresh
\* coroutine published a result and the clock published a time.
C13_Witness ==
    /\ rendered.loader
    /\ InFetch
    /\ HasResult
    /\ time = 1

\* C14: a cycle whose response is the empty array, read to its end,
\* publishes Some(Ok([])): a value that is neither None nor Some(Err).
C14_EmptyListIsOk ==
    (/\ refresh_pc = "sleeping"
     /\ wire[1] = "json"
     /\ Len(wire[2]) = 0
     /\ ~(HasErr /\ Published = TransportError))
        => /\ current_response = Some(Ok(<<>>))
           /\ current_response # None
           /\ ~IsErr(Outcome)

\* The empty list has replaced an earlier cycle's failure.
C14_Witness ==
    /\ refresh_pc = "sleeping"
    /\ wire = Json(<<>>)
    /\ HasOk
    /\ Len(Published) = 0
    /\ cycle = 2

\* The tiles on the screen are those of the list just published.
TilesShown ==
    /\ HasOk
    /\ refresh_pc = "sleeping"
    /\ rendered.body[1] = "tiles"
    /\ Len(rendered.body[2]) = Len(Published)

\* C15 as stated: a cancelled departure is struck through and shows the
\* planned time with no delay note; one without a delay value shows its time
\* in italics with no note; one with a delay value shows the plain time and
\* the "+N" note.
C15_RenderingAsClaimed ==
    TilesShown =>
        \A i \in 1..Len(Published) :
            LET d == Published[i]
                t == rendered.body[2][i]
            IN  /\ d.cancelled =>
                       /\ t.struck
                       /\ t.time_text = d.planned_time
                       /\ t.note = None
                /\ (~d.cancelled /\ ~IsSome(d.delay)) =>
                       /\ ~t.struck
                       /\ t.italic
                       /\ t.note = None
                /\ (~d.cancelled /\ IsSome(d.delay)) =>
                       /\ ~t.struck
                       /\ ~t.italic
                       /\ t.note = Some(d.delay[2])

\* C15, amended: the tile is struck through exactly when the departure is
\* cancelled and then shows the planned time, otherwise the actual time; the
\* "+N" note is shown exactly when a delay value is present, +0 included,
\* also on a cancelled departure; the time is in italics exactly when the
\* departure has no delay value and is not cancelled.
C15_RenderingChoice ==
    TilesShown =>
        \A i \in 1..Len(Published) :
            LET d == Published[i]
                t == rendered.body[2][i]
            IN  /\ t.struck <=> d.cancelled
                /\ t.time_text = IF d.cancelled THEN d.planned_time
                                 ELSE d.actual_time
                /\ IsSome(d.delay) => t.note = Some(d.delay[2])
                /\ ~IsSome(d.delay) => t.note = None
                /\ t.italic <=> (~IsSome(d.delay) /\ ~d.cancelled)

\* A cancelled departure with a delay value of 0 on the screen, its planned
\* and actual times different.
C15_Witness ==
    /\ TilesShown
    /\ Len(Published) = 1
    /\ Published[1].cancelled
    /\ Published[1].delay = Some(0)
    /\ Published[1].planned_time # Published[1].actual_time
    /\ rendered.body[2][1].struck

\* C16: the 5-second wait starts when the cycle's outcome is published and
\* the flag cleared, a later cycle's fetch starts only when that wait has
\* lasted its full 5 seconds, however long the fetch before it took, and the
\* first fetch can start at once.
C16_WaitAfterPublish ==
    /\ [](refresh_pc = "init" => ENABLED RefreshFirstPoll)
    /\ [][/\ result_cycle' # result_cycle =>
               /\ refresh_pc' = "sleeping"
               /\ ~is_fetching'
               /\ waited' = 0
          /\ (cycle' # cycle /\ refresh_pc # "init") =>
               /\ refresh_pc = "sleeping"
               /\ waited = RefreshSecs]_vars

\* A later cycle's fetch has just started.
C16_Witness ==
    /\ refresh_pc = "awaiting_get"
    /\ fetch_elapsed = 0
    /\ cycle = 2
    /\ result_cycle = 1

\* C17: decoding is all or nothing.  When one element of the array does
\* not decode the cycle ends in a failure and publishes no list; when a list
\* is published it holds each converted record of the array exactly once.
C17_AllOrNothing ==
    (refresh_pc = "sleeping" /\ wire[1] = "json") =>
        /\ (\E i \in 1..Len(wire[2]) : wire[2][i].absent \cap RequiredFields # {})
               => HasErr
        /\ HasOk =>
               /\ Len(converted) = Len(wire[2])
               /\ Len(Published) = Len(wire[2])
               /\ \E p \in Perms(Len(converted)) :
                      \A i \in 1..Len(converted) : Published[i] = converted[p[i]]

\* An array of a complete element and one that lacks a field has failed as
\* a whole.
C17_Witness ==
    /\ refresh_pc = "sleeping"
    /\ wire[1] = "json"
    /\ Len(wire[2]) = 2
    /\ wire[2][1].absent = {}
    /\ wire[2][2].absent = {"platform"}
    /\ HasErr
    /\ Published = DecodeError

\* The published outcome is one the cycle's response can have produced.
OutcomeOfLastFetch ==
    /\ wire[1] = "none" => Outcome = Err(TransportError)
    /\ wire[1] = "malformed" => IsErr(Outcome)
    /\ (wire[1] = "json" /\ IsOk(Outcome)) =>
           /\ Len(Published) = Len(wire[2])
           /\ Len(converted) = Len(wire[2])

\* C18: during the 5-second wait the flag is false and the latest result is
\* present and is the outcome of the fetch completed last; the flag is false
\* only before the first fetch starts or during such a wait.
C18_IdleState ==
    /\ refresh_pc = "sleeping" =>
           /\ ~is_fetching
           /\ HasResult
           /\ result_cycle = cycle
           /\ OutcomeOfLastFetch
    /\ ~is_fetching => refresh_pc \in {"init", "sleeping"}

\* In the middle of a wait, with two departures published.
C18_Witness ==
    /\ refresh_pc = "sleeping"
    /\ refresh_left > 0
    /\ refresh_left < RefreshSecs
    /\ HasOk
    /\ Len(Published) = 2
    /\ ~is_fetching

====
